---- MODULE Spec2Model ----
(***************************************************************************)
(* PG_Ninja (src/index.ts): one pg client shared by query, transaction and *)
(* multiquery.  A step of the model is one run-to-completion segment of    *)
(* the JavaScript event loop: the synchronous part of a call, or the       *)
(* connection answering one statement together with the continuation that  *)
(* the answer resumes, up to that continuation's next await.               *)
(***************************************************************************)
EXTENDS Integers, Sequences, FiniteSets, TLC

VARIABLES
  log,       \* #log: the constructor's flag
  conn,      \* outcome of #client.connect(): "connecting", "connected", "failed"
  tx,        \* the transaction calls made so far, one record per call
  mq,        \* the multiquery calls made so far
  qc,        \* the direct query calls made so far
  wire,      \* statements handed to #client.query, in order
  answered,  \* positions of wire the connection has answered
  trace,     \* history: every send, answer, log event, time stamp and settlement
  console,   \* lines written by console.log
  now,       \* the clock read by new Date()
  twin       \* a second instance, for the specification that runs two side by side

vars == <<log, conn, tx, mq, qc, wire, answered, trace, console, now, twin>>

(***************************************************************************)
(* Bounds of the model.                                                    *)
(***************************************************************************)
MaxQueries == 2      \* longest list of queries passed to one call
MaxTime == 1         \* the clock stops advancing here

Texts == {"q1", "q2"}
Bodies == {"b1", "b2"}
Undefined == "undefined"

SeqsUpTo(S, n) == UNION {[1..k -> S] : k \in 0..n}

(***************************************************************************)
(* Values.                                                                 *)
(***************************************************************************)
\* what the connection hands to the callback of #client.query: an error, or a
\* result with a command tag (possibly absent) and rows (-1: no rows field)
Outcomes ==
  { [err |-> TRUE, command |-> Undefined, rows |-> -1],
    [err |-> FALSE, command |-> "SELECT", rows |-> 1],
    [err |-> FALSE, command |-> "SELECT", rows |-> 0],
    [err |-> FALSE, command |-> "INSERT", rows |-> 0],
    [err |-> FALSE, command |-> Undefined, rows |-> -1] }

NoRes == [command |-> Undefined, rows |-> -1, of |-> 0, to_excel |-> FALSE]
NoErr == [name |-> "none", of |-> 0]
Thrown(k) == [name |-> "thrown", of |-> k]
TransactionFailed == [name |-> "Transaction failed", of |-> 0]
NoRowsError == [name |-> "Query returned no rows", of |-> 0]

\* what a statement awaited as a promise (BEGIN, COMMIT, ROLLBACK) comes back with
PlainOutcome(ok, text) ==
  [err |-> ~ok, command |-> IF ok THEN text ELSE Undefined, rows |-> IF ok THEN 0 ELSE -1]

NoMsg == [text |-> "", q |-> "", n |-> 0]
NoOut == [err |-> FALSE, command |-> Undefined, rows |-> -1]
Ev(ev, kind, call, idx, tag, msg, out) ==
  [ev |-> ev, kind |-> kind, call |-> call, idx |-> idx, tag |-> tag, msg |-> msg,
   out |-> out]

Colors(color) ==
  CASE color = "white" -> "\\x1b[37m"
    [] color = "green" -> "\\x1b[32m"
    [] color = "yellow" -> "\\x1b[33m"
    [] color = "red" -> "\\x1b[31m"
    [] color = "blue" -> "\\x1b[34m"

(***************************************************************************)
(* The effects a segment of code has on the connection and the console are *)
(* threaded through a record io.                                           *)
(***************************************************************************)
IO == [wire |-> wire, answered |-> answered, trace |-> trace, console |-> console]

\* #send_log(message, color), lines 16-31; the line's date prefix is left out
send_log(io, kind, call, msg, color) ==
  [io EXCEPT
     !.trace = Append(@, Ev("log", kind, call, 0, color, msg, NoOut)),
     !.console = IF log
                   THEN Append(@, [color |-> Colors(color), msg |-> msg])
                   ELSE @]

\* #client.query(text, body, ...): the statement goes to the connection
ClientQuery(io, kind, call, text, body, item) ==
  [io EXCEPT
     !.wire = Append(@, [kind |-> kind, call |-> call, text |-> text,
                         body |-> body, item |-> item]),
     !.trace = Append(@, Ev("send", kind, call, Len(io.wire) + 1, text, NoMsg, NoOut))]

\* the connection answers statement k
Answer(io, kind, call, k, out) ==
  [io EXCEPT
     !.answered = @ \cup {k},
     !.trace = Append(@, Ev("answer", kind, call, k,
                            IF out.err THEN "throw" ELSE "ok", NoMsg, out))]

\* a callback that logs failures only
QueryCallbackQuiet(io, kind, call, k, out) ==
  IF out.err
    THEN send_log(Answer(io, kind, call, k, out), kind, call,
                  [text |-> "error with query: ", q |-> wire[k].text, n |-> 0], "yellow")
    ELSE Answer(io, kind, call, k, out)

\* the callback of query, lines 41-54: one log event, and the result that
\* the promise of query resolves with
QueryCallback(io, kind, call, k, out) ==
  IF out.err
    THEN send_log(Answer(io, kind, call, k, out), kind, call,
                  [text |-> "error with query: ", q |-> wire[k].text, n |-> 0], "yellow")
    ELSE send_log(Answer(io, kind, call, k, out), kind, call,
                  [text |-> "success query: ", q |-> wire[k].text, n |-> 0], "blue")

QueryResult(k, out) ==
  [command |-> out.command, rows |-> out.rows, of |-> k,
   to_excel |-> (out.command = "SELECT")]

(***************************************************************************)
(* Promises: the first resolve or reject settles, later ones do nothing.   *)
(***************************************************************************)
Pending == [state |-> "pending", res |-> NoRes, err |-> NoErr]

\* a resolve or reject that sits inside the block that logs
SettleWhenLogging(m, kind, call, state, res, err) ==
  IF m.t.promise.state = "pending" /\ log
    THEN [m EXCEPT
            !.t.promise = [state |-> state, res |-> res, err |-> err],
            !.io.trace = Append(@, Ev("settle", kind, call, 0, state, NoMsg, NoOut))]
    ELSE m

Settle(m, kind, call, state, res, err) ==
  IF m.t.promise.state = "pending"
    THEN [m EXCEPT
            !.t.promise = [state |-> state, res |-> res, err |-> err],
            !.io.trace = Append(@, Ev("settle", kind, call, 0, state, NoMsg, NoOut))]
    ELSE m

(***************************************************************************)
(* constructor, lines 13-37                                                *)
(***************************************************************************)
\* the whole state of one instance, as a value
State ==
  [log |-> log, conn |-> conn, tx |-> tx, mq |-> mq, qc |-> qc, wire |-> wire,
   answered |-> answered, trace |-> trace, console |-> console, now |-> now]

\* no second instance
NoTwin == [who |-> "alone", st |-> [log |-> FALSE]]

Init ==
  /\ log \in BOOLEAN
  /\ conn = "connecting"
  /\ tx = <<>>
  /\ mq = <<>>
  /\ qc = <<>>
  /\ wire = <<>>
  /\ answered = {}
  /\ trace = <<>>
  /\ console = <<>>
  /\ now = 0
  /\ twin = NoTwin

EmptyIO == [wire |-> <<>>, answered |-> {}, trace |-> <<>>, console |-> <<>>]

Store(io) ==
  /\ wire' = io.wire
  /\ answered' = io.answered
  /\ trace' = io.trace
  /\ console' = io.console
  /\ UNCHANGED twin

ConnectLog(io, ok) ==
  IF ok
    THEN send_log(io, "connect", 0,
           [text |-> "successfully connected to the database", q |-> "", n |-> 0],
           "green")
    ELSE send_log(io, "connect", 0,
           [text |-> "Error connecting to the database: ", q |-> "", n |-> 0], "red")

\* #client.connect().then(...).catch(...), lines 32-36
ConnectDone(ok) ==
  /\ conn = "connecting"
  /\ conn' = IF ok THEN "connected" ELSE "failed"
  /\ Store(ConnectLog(IO, ok))
  /\ UNCHANGED <<log, tx, mq, qc, now>>

\* an instance whose connect() has already succeeded
InitReady ==
  /\ log \in BOOLEAN
  /\ conn = "connected"
  /\ tx = <<>>
  /\ mq = <<>>
  /\ qc = <<>>
  /\ wire = <<>>
  /\ answered = {}
  /\ trace = ConnectLog(EmptyIO, conn = "connected").trace
  /\ console = ConnectLog(EmptyIO, conn = "connected").console
  /\ now = 0
  /\ twin = NoTwin

\* time passes between the two readings of the clock, lines 129 and 131,
\* whether or not a statement is outstanding; no other line reads the clock,
\* so the time that passes elsewhere is left out
Tick ==
  /\ now < MaxTime
  /\ \E c \in 1..Len(mq) : mq[c].pc = "join"
  /\ now' = now + 1
  /\ UNCHANGED <<log, conn, tx, mq, qc, wire, answered, trace, console, twin>>

(***************************************************************************)
(* transaction, lines 58-82                                                *)
(***************************************************************************)
\* a pairing that is off by one: query i with bodies[i + 1]
TxQueryArgsShifted(queries, bodies) ==
  [i \in 1..Len(queries) |->
     <<queries[i], IF i + 1 <= Len(bodies) THEN bodies[i + 1] ELSE Undefined>>]

\* queries.map((x, i) => [x, bodies[i]]), line 61
TxQueryArgs(queries, bodies) ==
  [i \in 1..Len(queries) |->
     <<queries[i], IF i <= Len(bodies) THEN bodies[i] ELSE Undefined>>]

\* a loop whose bound is one short: the last query is never run
RunLoopShort(m, c) ==
  IF m.t.i + 1 < Len(m.t.queryArgs)
    THEN [io |-> ClientQuery(m.io, "transaction", c, m.t.queryArgs[m.t.i + 1][1],
                             m.t.queryArgs[m.t.i + 1][2], m.t.i),
          t |-> [m.t EXCEPT !.pc = "step", !.await = Len(m.io.wire) + 1]]
    ELSE [io |-> ClientQuery(m.io, "transaction", c, "COMMIT", Undefined, -1),
          t |-> [m.t EXCEPT !.pc = "commit", !.await = Len(m.io.wire) + 1]]

\* the for loop from index t.i up to its next await, lines 65-66 and 73
RunLoop(m, c) ==
  IF m.t.i < Len(m.t.queryArgs)
    THEN [io |-> ClientQuery(m.io, "transaction", c, m.t.queryArgs[m.t.i + 1][1],
                             m.t.queryArgs[m.t.i + 1][2], m.t.i),
          t |-> [m.t EXCEPT !.pc = "step", !.await = Len(m.io.wire) + 1]]
    ELSE [io |-> ClientQuery(m.io, "transaction", c, "COMMIT", Undefined, -1),
          t |-> [m.t EXCEPT !.pc = "commit", !.await = Len(m.io.wire) + 1]]

\* the catch block up to its await, lines 76-78
Catch(m, c, e) ==
  LET io1 == send_log(m.io, "transaction", c,
                      [text |-> "fatal error with transaction", q |-> "",
                       n |-> Len(m.t.queries)], "red")
  IN [io |-> ClientQuery(io1, "transaction", c, "ROLLBACK", Undefined, -1),
      t |-> [m.t EXCEPT !.pc = "catch_rollback", !.e = e,
                        !.await = Len(io1.wire) + 1]]

TxStore(m, c) ==
  /\ tx' = [tx EXCEPT ![c] = m.t]
  /\ Store(m.io)
  /\ UNCHANGED <<log, conn, mq, qc, now>>

\* a call that takes up the loop where the call before it left off
CallTransactionResumed(queries, bodies) ==
  /\ LET c == Len(tx) + 1
         t == [queries |-> queries, bodies |-> bodies,
               queryArgs |-> TxQueryArgs(queries, bodies),
               pc |-> "begin", i |-> IF tx = <<>> THEN 0 ELSE tx[Len(tx)].i,
               r |-> IF tx = <<>> THEN NoRes ELSE tx[Len(tx)].r, e |-> NoErr,
               await |-> Len(wire) + 1, ready |-> FALSE, got |-> NoOut,
               promise |-> Pending]
     IN /\ tx' = Append(tx, t)
        /\ Store(ClientQuery(IO, "transaction", c, "BEGIN", Undefined, -1))
  /\ UNCHANGED <<log, conn, mq, qc, now>>

\* the call up to the first await, lines 59-63
CallTransaction(queries, bodies) ==
  /\ LET c == Len(tx) + 1
         t == [queries |-> queries, bodies |-> bodies,
               queryArgs |-> TxQueryArgs(queries, bodies),
               pc |-> "begin", i |-> 0, r |-> NoRes, e |-> NoErr,
               await |-> Len(wire) + 1, ready |-> FALSE, got |-> NoOut,
               promise |-> Pending]
     IN /\ tx' = Append(tx, t)
        /\ Store(ClientQuery(IO, "transaction", c, "BEGIN", Undefined, -1))
  /\ UNCHANGED <<log, conn, mq, qc, now>>

\* the connection answers a statement the transaction sent itself (BEGIN,
\* COMMIT, ROLLBACK): its promise settles, and the code after the await
\* runs in a later job of the event loop
TxAnswered(c, ok) ==
  LET k == tx[c].await
      out == PlainOutcome(ok, wire[k].text)
  IN TxStore([io |-> Answer(IO, "transaction", c, k, out),
              t |-> [tx[c] EXCEPT !.ready = TRUE, !.got = out]], c)

\* BEGIN has come back, line 63
TxBeginDone(c, ok) ==
  /\ c \in 1..Len(tx)
  /\ tx[c].pc = "begin"
  /\ ~tx[c].ready
  /\ TxAnswered(c, ok)

\* the callback of the query of step i, lines 41-54: it logs and settles
\* the promise of query; the loop takes the result up in a later job
TxStepDone(c, out) ==
  /\ c \in 1..Len(tx)
  /\ tx[c].pc = "step"
  /\ ~tx[c].ready
  /\ TxStore([io |-> QueryCallback(IO, "transaction", c, tx[c].await, out),
              t |-> [tx[c] EXCEPT !.ready = TRUE, !.got = out]], c)

\* the ROLLBACK of line 69 has come back
TxRollbackDone(c, ok) ==
  /\ c \in 1..Len(tx)
  /\ tx[c].pc = "rollback"
  /\ ~tx[c].ready
  /\ TxAnswered(c, ok)

\* COMMIT has come back, line 73
TxCommitDone(c, ok) ==
  /\ c \in 1..Len(tx)
  /\ tx[c].pc = "commit"
  /\ ~tx[c].ready
  /\ TxAnswered(c, ok)

\* the ROLLBACK of the catch block has come back, line 78
TxCatchRollbackDone(c, ok) ==
  /\ c \in 1..Len(tx)
  /\ tx[c].pc = "catch_rollback"
  /\ ~tx[c].ready
  /\ TxAnswered(c, ok)

\* after "await this.#client.query("BEGIN")", lines 63-66
AfterBegin(m, c) ==
  IF m.t.got.err THEN Catch(m, c, Thrown(m.t.await)) ELSE RunLoop(m, c)

\* after "await this.query(...)" of step i, lines 66-73
AfterStep(m, c) ==
  LET k == m.t.await
      r == QueryResult(k, m.t.got)
  IN IF m.t.got.err
       THEN Catch(m, c, Thrown(k))
     ELSE IF r.command = Undefined
       THEN LET io2 == send_log(m.io, "transaction", c,
                                [text |-> "failed transaction", q |-> "",
                                 n |-> Len(m.t.queries)], "yellow")
            IN [io |-> ClientQuery(io2, "transaction", c, "ROLLBACK", Undefined, -1),
                t |-> [m.t EXCEPT !.r = r, !.pc = "rollback",
                                  !.await = Len(io2.wire) + 1]]
     ELSE RunLoop([m EXCEPT !.t.r = r, !.t.i = @ + 1], c)

\* after the ROLLBACK of line 69, lines 70-73: reject, and on with the loop
AfterRollback(m, c) ==
  IF m.t.got.err
    THEN Catch(m, c, Thrown(m.t.await))
    ELSE LET m1 == Settle(m, "transaction", c, "rejected", NoRes, TransactionFailed)
         IN RunLoop([m1 EXCEPT !.t.i = @ + 1], c)

\* after COMMIT, lines 74-75
AfterCommit(m, c) ==
  IF m.t.got.err
    THEN Catch(m, c, Thrown(m.t.await))
    ELSE LET m1 == [m EXCEPT !.io =
                      send_log(m.io, "transaction", c,
                               [text |-> "success transaction", q |-> "",
                                n |-> Len(m.t.queries)], "blue")]
             m2 == Settle(m1, "transaction", c, "resolved", m.t.r, NoErr)
         IN [m2 EXCEPT !.t.pc = "done"]

\* after the ROLLBACK of the catch block, line 79; when it throws, the
\* executor's own promise rejects and nobody settles the call
AfterCatchRollback(m, c) ==
  IF m.t.got.err
    THEN [m EXCEPT !.t.pc = "unhandled"]
    ELSE LET m1 == Settle(m, "transaction", c, "rejected", NoRes, m.t.e)
         IN [m1 EXCEPT !.t.pc = "done"]

\* the executor goes on after its await, up to the next await or its end
TxResume(c) ==
  /\ c \in 1..Len(tx)
  /\ tx[c].ready
  /\ LET m == [io |-> IO, t |-> [tx[c] EXCEPT !.ready = FALSE]]
     IN TxStore(CASE tx[c].pc = "begin" -> AfterBegin(m, c)
                  [] tx[c].pc = "step" -> AfterStep(m, c)
                  [] tx[c].pc = "rollback" -> AfterRollback(m, c)
                  [] tx[c].pc = "commit" -> AfterCommit(m, c)
                  [] OTHER -> AfterCatchRollback(m, c),
                c)

NextTx ==
  \/ /\ tx = <<>>
     /\ \E queries \in SeqsUpTo(Texts, MaxQueries), bodies \in SeqsUpTo(Bodies, MaxQueries) :
          CallTransaction(queries, bodies)
  \/ \E c \in 1..Len(tx), ok \in BOOLEAN : TxBeginDone(c, ok)
  \/ \E c \in 1..Len(tx), out \in Outcomes : TxStepDone(c, out)
  \/ \E c \in 1..Len(tx), ok \in BOOLEAN : TxRollbackDone(c, ok)
  \/ \E c \in 1..Len(tx), ok \in BOOLEAN : TxCommitDone(c, ok)
  \/ \E c \in 1..Len(tx), ok \in BOOLEAN : TxCatchRollbackDone(c, ok)
  \/ \E c \in 1..Len(tx) : TxResume(c)

SpecTx == InitReady /\ [][NextTx]_vars

(***************************************************************************)
(* query called directly, lines 39-56                                      *)
(***************************************************************************)
\* the call: the executor hands the statement to the client, line 41
CallQuery(q, body) ==
  /\ qc' = Append(qc, [q |-> q, body |-> body, await |-> Len(wire) + 1,
                       t |-> [promise |-> Pending]])
  /\ Store(ClientQuery(IO, "query", Len(qc) + 1, q, body, 0))
  /\ UNCHANGED <<log, conn, tx, mq, now>>

\* the callback, lines 41-54
QueryDone(c, out) ==
  /\ c \in 1..Len(qc)
  /\ qc[c].t.promise.state = "pending"
  /\ LET k == qc[c].await
         m == [io |-> QueryCallback(IO, "query", c, k, out), t |-> qc[c].t]
         m1 == IF out.err
                 THEN Settle(m, "query", c, "rejected", NoRes, Thrown(k))
                 ELSE Settle(m, "query", c, "resolved", QueryResult(k, out), NoErr)
     IN /\ qc' = [qc EXCEPT ![c].t = m1.t]
        /\ Store(m1.io)
  /\ UNCHANGED <<log, conn, tx, mq, now>>

(***************************************************************************)
(* multiquery, lines 84-141                                                *)
(***************************************************************************)
\* the values passed as ...args: a flag, or an array of parameter lists
BoolArg(b) == [t |-> "bool", b |-> b, a |-> <<>>]
ArrayArg(a) == [t |-> "array", b |-> FALSE, a |-> a]
UndefinedArg == [t |-> Undefined, b |-> FALSE, a |-> <<>>]

\* JavaScript truthiness: true, and every array (the empty one too)
Truthy(v) == v.t = "array" \/ (v.t = "bool" /\ v.b)

\* params[i]: undefined past the end of an array, and on a boolean
ParamAt(params, i) ==
  IF params.t = "array" /\ i <= Len(params.a) THEN params.a[i] ELSE Undefined

\* the call shapes: (qrs), (qrs, flag), (qrs, params), (qrs, params, flag);
\* a params array is shorter than the longest batch, so that params[i] is
\* read within the array and past its end
Params == {"p1"}
QueryPairs == {<<"q1", "b1">>, <<"q2", "b2">>}
ArgLists ==
  {<<>>}
    \cup {<<BoolArg(b)>> : b \in BOOLEAN}
    \cup {<<ArrayArg(p)>> : p \in SeqsUpTo(Params, MaxQueries - 1)}
    \cup {<<ArrayArg(p), BoolArg(b)>> : p \in SeqsUpTo(Params, MaxQueries - 1), b \in BOOLEAN}

\* const params = args[0], line 94
ArgsParams(args) == IF args = <<>> THEN UndefinedArg ELSE args[1]

\* const saveSuccess = args.at(-1) ?? false, line 95
ArgsSaveSuccess(args) == IF args = <<>> THEN BoolArg(FALSE) ELSE args[Len(args)]

\* const queryArgs = params ? qrs.map((x, i) => [x[0], params[i]]) : qrs, line 97
MqQueryArgs(qrs, params) ==
  IF Truthy(params)
    THEN [i \in 1..Len(qrs) |-> <<qrs[i][1], ParamAt(params, i)>>]
    ELSE qrs

\* a map that files a value under the next free key, as a push would
MapPutNext(f, i, v) ==
  [j \in DOMAIN f \cup {Cardinality(DOMAIN f)} |->
     IF j = Cardinality(DOMAIN f) THEN v ELSE f[j]]

\* obj[i] = v on an object used as a map
MapPut(f, i, v) == [j \in DOMAIN f \cup {i} |-> IF j = i THEN v ELSE f[j]]

\* const resp = {...}, lines 99-108
NewResp(qrs) ==
  [completed |-> 0,
   completed_of |-> Len(qrs),
   success_query_list |-> <<>>,
   failed_query_list |-> <<>>,
   error_list |-> <<>>,
   fatal_error |-> NoErr,
   operation_time |-> 0,
   success |-> TRUE]

\* queryArgs.map(async ...) up to each item's await: every query goes to the
\* client, in order, within the call itself, lines 110-112
RECURSIVE MapDispatch(_, _, _, _)

\* a dispatch that stops after the first item
MapDispatchFirst(io, c, queryArgs, i) ==
  IF i > Len(queryArgs) \/ i > 1
    THEN io
    ELSE MapDispatch(ClientQuery(io, "multiquery", c, queryArgs[i][1], queryArgs[i][2],
                                 i - 1),
                     c, queryArgs, i + 1)

MapDispatch(io, c, queryArgs, i) ==
  IF i > Len(queryArgs)
    THEN io
    ELSE MapDispatch(ClientQuery(io, "multiquery", c, queryArgs[i][1], queryArgs[i][2],
                                 i - 1),
                     c, queryArgs, i + 1)

\* an item body that counts a failed item as completed too
MqItemDoubleCount(resp, i, queryArg, saveSuccess, out, r, e) ==
  IF out.err \/ r.rows = -1 \/ r.rows = 0
    THEN [resp EXCEPT !.failed_query_list = MapPut(@, i, queryArg),
                      !.error_list = MapPut(@, i, IF out.err THEN e ELSE NoRowsError),
                      !.success = IF out.err THEN FALSE ELSE @,
                      !.completed = @ + 1]
    ELSE [resp EXCEPT !.completed = @ + 1,
                      !.success_query_list =
                        IF Truthy(saveSuccess)
                          THEN MapPut(@, i, [rows |-> r.rows, of |-> r.of])
                          ELSE @]

\* an item body for which a result without rows is a success
MqItemEmptyIsSuccess(resp, i, queryArg, saveSuccess, out, r, e) ==
  IF out.err
    THEN [resp EXCEPT !.failed_query_list = MapPut(@, i, queryArg),
                      !.error_list = MapPut(@, i, e),
                      !.success = FALSE]
    ELSE [resp EXCEPT !.completed = @ + 1,
                      !.success_query_list =
                        IF Truthy(saveSuccess)
                          THEN MapPut(@, i, [rows |-> r.rows, of |-> r.of])
                          ELSE @]

\* the body of one item after its await, lines 113-124; r is the result
\* the query resolved with, e the error it rejected with
MqItem(resp, i, queryArg, saveSuccess, out, r, e) ==
  IF out.err
    THEN [resp EXCEPT !.failed_query_list = MapPut(@, i, queryArg),
                      !.error_list = MapPut(@, i, e),
                      !.success = FALSE]
  ELSE IF r.rows = -1 \/ r.rows = 0
    THEN [resp EXCEPT !.failed_query_list = MapPut(@, i, queryArg),
                      !.error_list = MapPut(@, i, NoRowsError)]
  ELSE [resp EXCEPT !.completed = @ + 1,
                    !.success_query_list =
                      IF Truthy(saveSuccess)
                        THEN MapPut(@, i, [rows |-> r.rows, of |-> r.of])
                        ELSE @]

\* an item whose catch block hands the error on
ItemPromiseRethrow(out) == IF out.err THEN "rejected" ELSE "fulfilled"

\* how the promise of one item ends: the try/catch of lines 111-124 spans
\* the whole body, so it is fulfilled whatever the query did
ItemPromise(out) == "fulfilled"

\* Promise.all(promises), line 130: rejected as soon as one item is, fulfilled
\* once all are
AllRejected(items) == \E i \in 1..Len(items) : items[i] = "rejected"
\* a join that is satisfied by the first item to be fulfilled
AnyFulfilled(items) == \E i \in 1..Len(items) : items[i] = "fulfilled"

AllFulfilled(items) == \A i \in 1..Len(items) : items[i] = "fulfilled"

\* a resolve that turns into a reject when the report is not a success
MqResolveOrReject(m, c) ==
  IF m.t.resp.success
    THEN Settle(m, "multiquery", c, "resolved", NoRes, NoErr)
    ELSE Settle(m, "multiquery", c, "rejected", NoRes, NoErr)

\* resolve(resp), lines 133 and 138
MqResolve(m, c) == Settle(m, "multiquery", c, "resolved", NoRes, NoErr)

MqStore(m, c) ==
  /\ mq' = [mq EXCEPT ![c] = m.t]
  /\ Store(m.io)
  /\ UNCHANGED <<log, conn, tx, qc, now>>

\* the call up to await Promise.all, lines 94-130
CallMultiquery(qrs, args) ==
  /\ LET c == Len(mq) + 1
         queryArgs == MqQueryArgs(qrs, ArgsParams(args))
         io1 == MapDispatch(IO, c, queryArgs, 1)
         io2 == [io1 EXCEPT !.trace =
                   Append(@, Ev("stamp", "multiquery", c, now, "start", NoMsg, NoOut))]
         t == [qrs |-> qrs, args |-> args,
               saveSuccess |-> ArgsSaveSuccess(args),
               queryArgs |-> queryArgs,
               resp |-> NewResp(qrs),
               await |-> [i \in 1..Len(queryArgs) |-> Len(wire) + i],
               item |-> [i \in 1..Len(queryArgs) |-> "pending"],
               got |-> [i \in 1..Len(queryArgs) |-> NoOut],
               jobs |-> <<>>,
               pc |-> "join", startTime |-> now, promise |-> Pending]
     IN /\ mq' = Append(mq, t)
        /\ Store(io2)
  /\ UNCHANGED <<log, conn, tx, qc, now>>

\* the callback of the query of item i (counted from 0), lines 41-54: it
\* logs and settles the promise of query; the item takes the result up in a
\* later job, and the jobs run in the order in which they were queued
MqItemDone(c, i, out) ==
  /\ c \in 1..Len(mq)
  /\ i \in 0..(Len(mq[c].queryArgs) - 1)
  /\ mq[c].item[i + 1] = "pending"
  /\ MqStore([io |-> QueryCallback(IO, "multiquery", c, mq[c].await[i + 1], out),
              t |-> [mq[c] EXCEPT !.item[i + 1] = "answered",
                                  !.got[i + 1] = out,
                                  !.jobs = Append(@, i)]],
             c)

\* the item whose callback ran first goes on after "await this.query(...)",
\* lines 113-124: it writes its outcome to resp, and its promise settles
MqItemResume(c) ==
  /\ c \in 1..Len(mq)
  /\ mq[c].jobs # <<>>
  /\ LET i == Head(mq[c].jobs)
         k == mq[c].await[i + 1]
         out == mq[c].got[i + 1]
     IN MqStore([io |-> IO,
                 t |-> [mq[c] EXCEPT
                          !.resp = MqItem(@, i, mq[c].queryArgs[i + 1],
                                          mq[c].saveSuccess, out,
                                          QueryResult(k, out), Thrown(k)),
                          !.item[i + 1] = ItemPromise(out),
                          !.jobs = Tail(@)]],
                c)

\* Promise.all has settled, lines 130-139
MqJoin(c) ==
  /\ c \in 1..Len(mq)
  /\ mq[c].pc = "join"
  /\ AllRejected(mq[c].item) \/ AllFulfilled(mq[c].item)
  /\ LET m == [io |-> IO, t |-> mq[c]]
     IN MqStore(
          IF AllRejected(mq[c].item)
            THEN LET i == CHOOSE i \in 1..Len(mq[c].item) : mq[c].item[i] = "rejected"
                     m1 == [m EXCEPT
                              !.t.resp.fatal_error = Thrown(mq[c].await[i]),
                              !.t.resp.success = FALSE,
                              !.t.pc = "done",
                              !.io = send_log(m.io, "multiquery", c,
                                       [text |-> "fatal error of multi-query", q |-> "",
                                        n |-> Len(mq[c].qrs)], "red")]
                 IN MqResolve(m1, c)
            ELSE LET io1 == [m.io EXCEPT !.trace =
                               Append(@, Ev("stamp", "multiquery", c, now, "end",
                                            NoMsg, NoOut))]
                     m1 == [m EXCEPT
                              !.t.resp.operation_time = now - mq[c].startTime,
                              !.t.pc = "done",
                              !.io = send_log(io1, "multiquery", c,
                                       [text |-> "new multi-query", q |-> "",
                                        n |-> mq[c].resp.completed], "white")]
                 IN MqResolve(m1, c),
          c)

NextMq ==
  \/ Tick
  \/ /\ mq = <<>>
     /\ \E qrs \in SeqsUpTo(QueryPairs, MaxQueries), args \in ArgLists :
          CallMultiquery(qrs, args)
  \/ \E c \in 1..Len(mq), i \in 0..(MaxQueries - 1), out \in Outcomes : MqItemDone(c, i, out)
  \/ \E c \in 1..Len(mq) : MqItemResume(c)
  \/ \E c \in 1..Len(mq) : MqJoin(c)

\* the batch is run on an instance that logs: what an instance that does not
\* log does differently is the subject of SpecLog
InitMq == InitReady /\ log

SpecMq == InitMq /\ [][NextMq]_vars

\* query reads no clock, so time is left out of this specification
NextQuery ==
  \/ /\ Len(qc) < MaxQueries
     /\ \E q \in Texts, body \in Bodies \cup {Undefined} : CallQuery(q, body)
  \/ \E c \in 1..Len(qc), out \in Outcomes : QueryDone(c, out)

SpecQuery == InitReady /\ [][NextQuery]_vars

(***************************************************************************)
(* Reading the history of one transaction call.                            *)
(***************************************************************************)
TxCalls == 1..Len(tx)
TracePos == 1..Len(trace)

\* trace[p] belongs to transaction call c
OfTx(p, c) == trace[p].kind = "transaction" /\ trace[p].call = c

\* positions at which call c sent the control statement text
TxSent(c, text) ==
  {p \in TracePos : OfTx(p, c) /\ trace[p].ev = "send" /\ trace[p].tag = text
                     /\ wire[trace[p].idx].item = -1}

\* positions at which call c sent one of its queries
TxStepSent(c) ==
  {p \in TracePos : OfTx(p, c) /\ trace[p].ev = "send" /\ wire[trace[p].idx].item >= 0}

\* positions at which one of the queries of call c came back
TxStepAnswered(c) ==
  {p \in TracePos : OfTx(p, c) /\ trace[p].ev = "answer" /\ wire[trace[p].idx].item >= 0}

\* positions at which a step of call c failed: the query threw, or its result
\* has no command tag
TxStepFailed(c) ==
  {p \in TxStepAnswered(c) : trace[p].out.err \/ trace[p].out.command = Undefined}

\* positions at which a statement of call c threw
TxThrown(c) == {p \in TracePos : OfTx(p, c) /\ trace[p].ev = "answer" /\ trace[p].out.err}

\* positions at which the promise of call c was settled
TxSettled(c) == {p \in TracePos : OfTx(p, c) /\ trace[p].ev = "settle"}

\* the ROLLBACK of line 69: the one sent right after the log event of line 68
TxTagRollbackSent(c) ==
  {p \in TxSent(c, "ROLLBACK") : p > 1 /\ trace[p - 1].ev = "log"
                                  /\ trace[p - 1].msg.text = "failed transaction"}

\* no continuation of call c is left to run
TxOver(c) == tx[c].pc \in {"done", "unhandled"}

Min(S) == CHOOSE x \in S : \A y \in S : x <= y
Max(S) == CHOOSE x \in S : \A y \in S : x >= y

(***************************************************************************)
(* C1: when a step of a transaction fails (no command tag, or the query    *)
(* throws), COMMIT is never issued during the call and the call rejects.   *)
(***************************************************************************)
C1_NoCommitAfterFailedStep ==
  \A c \in TxCalls :
    TxStepFailed(c) # {} =>
      /\ TxSent(c, "COMMIT") = {}
      /\ TxOver(c) => tx[c].promise.state = "rejected"

(***************************************************************************)
(* C2: once the ROLLBACK for a result without command tag has been issued, *)
(* none of the remaining queries of the list is sent afterwards.           *)
(***************************************************************************)
C2_NoQueryAfterRollback ==
  \A c \in TxCalls :
    \A p \in TxTagRollbackSent(c) : \A p2 \in TxStepSent(c) : p2 < p

(***************************************************************************)
(* C3: when every step succeeds and nothing throws, COMMIT is issued       *)
(* exactly once and only after the last step has come back, no ROLLBACK is *)
(* issued, and the call resolves with the result of the last query.        *)
(***************************************************************************)
TxAllWell(c) == TxStepFailed(c) = {} /\ TxThrown(c) = {}

\* the result of the last query of the list as the callback of query built it
TxLastResult(c) ==
  LET p == CHOOSE p \in TxStepAnswered(c) :
              wire[trace[p].idx].item = Len(tx[c].queries) - 1
  IN QueryResult(trace[p].idx, trace[p].out)

C3_CommitOnceAndResolveLast ==
  \A c \in TxCalls :
    TxAllWell(c) =>
      /\ TxSent(c, "ROLLBACK") = {}
      /\ Cardinality(TxSent(c, "COMMIT")) <= 1
      /\ \A p \in TxSent(c, "COMMIT") :
           /\ Cardinality(TxStepAnswered(c)) = Len(tx[c].queries)
           /\ \A p2 \in TxStepAnswered(c) : p2 < p
      /\ tx[c].promise.state # "rejected"
      /\ \A p \in TxSettled(c) : \A p2 \in TxSent(c, "COMMIT") : p2 < p
      /\ TxOver(c) =>
           /\ Cardinality(TxSent(c, "COMMIT")) = 1
           /\ tx[c].promise.state = "resolved"
           /\ Len(tx[c].queries) > 0 => tx[c].promise.res = TxLastResult(c)

C3_Witness ==
  \E c \in TxCalls :
    /\ TxAllWell(c)
    /\ Len(tx[c].queries) >= 2
    /\ tx[c].pc = "done"
    /\ tx[c].promise.state = "resolved"

(***************************************************************************)
(* C4: BEGIN goes out before any query; the queries go out in submission   *)
(* order, query i with bodies[i]; and at most one statement of the call is *)
(* in flight at any time.                                                  *)
(***************************************************************************)
TxWire(c) == {k \in 1..Len(wire) : wire[k].kind = "transaction" /\ wire[k].call = c}
TxStepWire(c) == {k \in TxWire(c) : wire[k].item >= 0}

C4_BeginThenInOrderOneAtATime ==
  \A c \in TxCalls :
    /\ TxWire(c) # {}
    /\ wire[Min(TxWire(c))].text = "BEGIN" /\ wire[Min(TxWire(c))].item = -1
    /\ \A k \in TxStepWire(c) :
         LET i == Cardinality({j \in TxStepWire(c) : j < k})
         IN /\ wire[k].item = i
            /\ i < Len(tx[c].queries)
            /\ wire[k].text = tx[c].queries[i + 1]
            /\ wire[k].body = IF i + 1 <= Len(tx[c].bodies)
                                THEN tx[c].bodies[i + 1] ELSE Undefined
    /\ Cardinality(TxWire(c) \ answered) <= 1
    /\ \A k \in TxWire(c) : k # Max(TxWire(c)) => k \in answered

C4_Witness ==
  \E c \in TxCalls :
    /\ Cardinality(TxStepWire(c)) >= 2
    /\ Len(tx[c].bodies) >= 2
    /\ tx[c].bodies[1] # tx[c].bodies[2]
    /\ Max(TxStepWire(c)) \notin answered

(***************************************************************************)
(* C5: if BEGIN, a step, COMMIT or ROLLBACK throws, a ROLLBACK is          *)
(* attempted before the call is surfaced as failed, and the call rejects   *)
(* with the first error thrown, also when the statement that throws is     *)
(* ROLLBACK itself.                                                        *)
(***************************************************************************)
C5_ThrowRollsBackAndRejectsWithFirstError ==
  \A c \in TxCalls :
    (TxThrown(c) # {} /\ TxOver(c)) =>
      /\ tx[c].promise.state = "rejected"
      /\ tx[c].promise.err = Thrown(trace[Min(TxThrown(c))].idx)
      /\ \A p \in TxSettled(c) : \E p2 \in TxSent(c, "ROLLBACK") : p2 < p

(***************************************************************************)
(* Reading the history of one multiquery call.                             *)
(***************************************************************************)
MqCalls == 1..Len(mq)
MqItems(c) == 0..(Len(mq[c].qrs) - 1)
MqWire(c) == {k \in 1..Len(wire) : wire[k].kind = "multiquery" /\ wire[k].call = c}

\* the place in the history at which item i of call c came back, if it has
MqAnswered(c, i) ==
  {p \in TracePos : /\ trace[p].ev = "answer" /\ trace[p].kind = "multiquery"
                    /\ trace[p].call = c /\ wire[trace[p].idx].item = i}

\* the items of call c whose query has come back, and what it came back
\* with (got is the history of what the connection answered, item by item)
MqCameBack(c) == {i \in MqItems(c) : mq[c].await[i + 1] \in answered}
\* the items of call c that have run to their end: their promise has settled
MqSettledItems(c) == {i \in MqItems(c) : mq[c].item[i + 1] \notin {"pending", "answered"}}
MqOut(c, i) == mq[c].got[i + 1]
MqThrew(c, i) == MqOut(c, i).err
MqNoRows(c, i) == ~MqOut(c, i).err /\ MqOut(c, i).rows <= 0
MqRows(c, i) == ~MqOut(c, i).err /\ MqOut(c, i).rows >= 1

MqResolved(c) == mq[c].promise.state = "resolved"

(***************************************************************************)
(* C6: in every report multiquery resolves with, success is true exactly   *)
(* when error_list is empty and fatal_error is absent; so a batch with an  *)
(* item that returns zero rows resolves with success = false.              *)
(***************************************************************************)
C6_SuccessIffNoErrors ==
  \A c \in MqCalls :
    MqResolved(c) =>
      (mq[c].resp.success <=>
         (DOMAIN mq[c].resp.error_list = {} /\ mq[c].resp.fatal_error = NoErr))

(***************************************************************************)
(* C7: in every report multiquery resolves with, completed plus the number *)
(* of keys of failed_query_list is completed_of, which is the number of    *)
(* queries submitted, whatever the items came back with and in whatever    *)
(* order.                                                                  *)
(***************************************************************************)
C7_CompletedPlusFailedIsTotal ==
  \A c \in MqCalls :
    /\ mq[c].resp.completed_of = Len(mq[c].qrs)
    /\ mq[c].resp.completed + Cardinality(DOMAIN mq[c].resp.failed_query_list)
         = Cardinality(MqSettledItems(c))
    /\ MqResolved(c) =>
         mq[c].resp.completed + Cardinality(DOMAIN mq[c].resp.failed_query_list)
           = mq[c].resp.completed_of

\* a resolved report of two items that came back in reverse order, one with
\* rows and one without
C7_Witness ==
  \E c \in MqCalls :
    /\ MqResolved(c)
    /\ Len(mq[c].qrs) = 2
    /\ \E p0 \in MqAnswered(c, 0), p1 \in MqAnswered(c, 1) : p1 < p0
    /\ mq[c].resp.completed = 1
    /\ Cardinality(DOMAIN mq[c].resp.failed_query_list) = 1

(***************************************************************************)
(* C8: multiquery never rejects; whatever the items come back with, every  *)
(* item throwing included, the call ends resolved, and a failure shows     *)
(* only as fields of the report.                                           *)
(***************************************************************************)
C8_NeverRejects ==
  \A c \in MqCalls :
    /\ mq[c].promise.state # "rejected"
    /\ mq[c].pc = "done" => MqResolved(c)
    /\ (MqSettledItems(c) = MqItems(c) /\ ~MqResolved(c)) => ENABLED MqJoin(c)
    /\ \A i \in MqSettledItems(c) :
         MqThrew(c, i) =>
           /\ i \in DOMAIN mq[c].resp.error_list
           /\ mq[c].resp.error_list[i] = Thrown(mq[c].await[i + 1])

C8_Witness ==
  \E c \in MqCalls :
    /\ MqResolved(c)
    /\ Len(mq[c].qrs) >= 2
    /\ \A i \in MqItems(c) : MqThrew(c, i)

(***************************************************************************)
(* C9: multiquery hands every query of the request to the connection       *)
(* before it waits for any result, and an item that fails (throws, or      *)
(* returns no rows) keeps no sibling from being dispatched and from having *)
(* its own outcome recorded in the report.                                 *)
(***************************************************************************)
C9_DispatchAllThenJoin ==
  \A c \in MqCalls :
    /\ Cardinality(MqWire(c)) = Len(mq[c].qrs)
    /\ \A i \in MqItems(c) :
         /\ mq[c].await[i + 1] \in MqWire(c)
         /\ wire[mq[c].await[i + 1]].item = i
         /\ wire[mq[c].await[i + 1]].text = mq[c].qrs[i + 1][1]
    /\ LET sends == {p \in TracePos : /\ trace[p].kind = "multiquery"
                                      /\ trace[p].call = c /\ trace[p].ev = "send"}
       IN /\ {trace[p].idx : p \in sends} = MqWire(c)
          /\ \A p \in sends : \A p2 \in 1..(p - 1) :
               (trace[p2].kind = "multiquery" /\ trace[p2].call = c)
                 => trace[p2].ev = "send"
    /\ MqSettledItems(c) \subseteq MqCameBack(c)
    /\ \A i \in MqCameBack(c) :
         \E p \in MqAnswered(c, i) : trace[p].out = MqOut(c, i)
    /\ \A i \in MqItems(c) \ MqCameBack(c) : mq[c].item[i + 1] = "pending"
    /\ \A i \in MqCameBack(c) \ MqSettledItems(c) :
         /\ mq[c].item[i + 1] = "answered"
         /\ \E j \in 1..Len(mq[c].jobs) : mq[c].jobs[j] = i
    /\ MqResolved(c) => MqSettledItems(c) = MqItems(c)
    /\ \A i \in MqSettledItems(c) :
         (i \in DOMAIN mq[c].resp.failed_query_list) <=> ~MqRows(c, i)

\* item 0 threw first, item 1 then came back with rows and was counted
C9_Witness ==
  \E c \in MqCalls :
    /\ MqResolved(c)
    /\ Len(mq[c].qrs) = 2
    /\ \E p0 \in MqAnswered(c, 0), p1 \in MqAnswered(c, 1) : p0 < p1
    /\ MqThrew(c, 0)
    /\ MqRows(c, 1)
    /\ mq[c].resp.completed = 1
    /\ DOMAIN mq[c].resp.failed_query_list = {0}

(***************************************************************************)
(* C10: each item on its own: with at least one row it adds exactly one to *)
(* completed and is in neither failed_query_list nor error_list; with zero *)
(* rows it adds nothing to completed and is in failed_query_list with the  *)
(* query it was dispatched as and in error_list with 'Query returned no    *)
(* rows'; when it throws it is in failed_query_list and error_list holds   *)
(* the error thrown.  An item that has not come back is in no list.        *)
(***************************************************************************)
C10_ItemOutcomeRecorded ==
  \A c \in MqCalls :
    /\ mq[c].resp.completed = Cardinality({i \in MqSettledItems(c) : MqRows(c, i)})
    /\ \A i \in MqItems(c) \ MqSettledItems(c) :
         /\ i \notin DOMAIN mq[c].resp.failed_query_list
         /\ i \notin DOMAIN mq[c].resp.error_list
    /\ DOMAIN mq[c].resp.failed_query_list \subseteq MqItems(c)
    /\ DOMAIN mq[c].resp.error_list \subseteq MqItems(c)
    /\ \A i \in MqSettledItems(c) :
         /\ MqRows(c, i) =>
              /\ i \notin DOMAIN mq[c].resp.failed_query_list
              /\ i \notin DOMAIN mq[c].resp.error_list
         /\ MqNoRows(c, i) =>
              /\ i \in DOMAIN mq[c].resp.failed_query_list
              /\ mq[c].resp.failed_query_list[i] = mq[c].queryArgs[i + 1]
              /\ mq[c].resp.failed_query_list[i] =
                   <<wire[mq[c].await[i + 1]].text, wire[mq[c].await[i + 1]].body>>
              /\ mq[c].resp.failed_query_list[i][1] = mq[c].qrs[i + 1][1]
              /\ i \in DOMAIN mq[c].resp.error_list
              /\ mq[c].resp.error_list[i] = NoRowsError
         /\ MqThrew(c, i) =>
              /\ i \in DOMAIN mq[c].resp.failed_query_list
              /\ mq[c].resp.failed_query_list[i] = mq[c].queryArgs[i + 1]
              /\ mq[c].resp.failed_query_list[i][1] = mq[c].qrs[i + 1][1]
              /\ i \in DOMAIN mq[c].resp.error_list
              /\ mq[c].resp.error_list[i] = Thrown(mq[c].await[i + 1])

\* a resolved report of one item with rows and one with zero rows
C10_Witness ==
  \E c \in MqCalls :
    /\ MqResolved(c)
    /\ Len(mq[c].qrs) = 2
    /\ \E i, j \in MqItems(c) :
         /\ MqRows(c, i) /\ MqOut(c, j).rows = 0 /\ ~MqThrew(c, j)
         /\ mq[c].resp.failed_query_list[j] = mq[c].qrs[j + 1]

(***************************************************************************)
(* C11: the report does not depend on the order in which the items come    *)
(* back: apart from operation_time it is the report that the items, taken  *)
(* in submission order with the outcomes they had, would have produced,    *)
(* and the outcome of item i is held under key i.                          *)
(***************************************************************************)
\* the report after the items below n that have come back were recorded in
\* submission order, each with the outcome it had
RECURSIVE MqInOrder(_, _)
MqInOrder(c, n) ==
  IF n = 0
    THEN NewResp(mq[c].qrs)
  ELSE IF (n - 1) \in MqSettledItems(c)
    THEN MqItem(MqInOrder(c, n - 1), n - 1, mq[c].queryArgs[n], mq[c].saveSuccess,
                MqOut(c, n - 1), QueryResult(mq[c].await[n], MqOut(c, n - 1)),
                Thrown(mq[c].await[n]))
  ELSE MqInOrder(c, n - 1)

C11_ReportIndependentOfArrivalOrder ==
  \A c \in MqCalls :
    /\ [mq[c].resp EXCEPT !.operation_time = 0] = MqInOrder(c, Len(mq[c].qrs))
    /\ \A i \in MqSettledItems(c) :
         /\ (MqRows(c, i) /\ Truthy(mq[c].saveSuccess)) =>
              /\ i \in DOMAIN mq[c].resp.success_query_list
              /\ mq[c].resp.success_query_list[i].of = mq[c].await[i + 1]
         /\ ~MqRows(c, i) =>
              /\ i \in DOMAIN mq[c].resp.failed_query_list
              /\ mq[c].resp.failed_query_list[i][1] = mq[c].qrs[i + 1][1]
         /\ MqThrew(c, i) =>
              /\ i \in DOMAIN mq[c].resp.error_list
              /\ mq[c].resp.error_list[i] = Thrown(mq[c].await[i + 1])

\* a resolved report of two different queries whose results came back in
\* reverse order: item 1 with rows (kept), then item 0 thrown
C11_Witness ==
  \E c \in MqCalls :
    /\ MqResolved(c)
    /\ Len(mq[c].qrs) = 2
    /\ mq[c].qrs[1] # mq[c].qrs[2]
    /\ \E p0 \in MqAnswered(c, 0), p1 \in MqAnswered(c, 1) : p1 < p0
    /\ MqThrew(c, 0)
    /\ MqRows(c, 1)
    /\ DOMAIN mq[c].resp.success_query_list = {1}
    /\ DOMAIN mq[c].resp.error_list = {0}

(***************************************************************************)
(* C12: multiquery resolves only after every dispatched item has settled:  *)
(* the report is never handed over while an item is pending, no field of   *)
(* the report changes once it has been resolved, and each call emits       *)
(* exactly one summary log event, after its last item has settled.         *)
(***************************************************************************)
\* the places in the history at which call c logged its summary (line 132
\* or line 137)
MqSummaryLogs(c) ==
  {p \in TracePos : /\ trace[p].ev = "log" /\ trace[p].kind = "multiquery"
                    /\ trace[p].call = c
                    /\ trace[p].msg.text \in {"new multi-query",
                                              "fatal error of multi-query"}}

MqResolvedAfterAllSettled ==
  \A c \in MqCalls :
    /\ MqResolved(c) =>
         /\ MqSettledItems(c) = MqItems(c)
         /\ \A i \in MqItems(c) : mq[c].item[i + 1] # "pending"
         /\ Cardinality(MqSummaryLogs(c)) = 1
    /\ ~MqResolved(c) => MqSummaryLogs(c) = {}
    /\ \A p \in MqSummaryLogs(c) :
         /\ \A i \in MqItems(c) : \E p2 \in MqAnswered(c, i) : p2 < p
         /\ \E p3 \in TracePos :
              /\ p3 > p /\ trace[p3].ev = "settle" /\ trace[p3].kind = "multiquery"
              /\ trace[p3].call = c

MqResolvedReportIsFrozen ==
  \A c \in MqCalls :
    MqResolved(c) => /\ mq'[c].resp = mq[c].resp
                     /\ mq'[c].promise = mq[c].promise

C12_ResolveAfterLastItem ==
  /\ []MqResolvedAfterAllSettled
  /\ [][MqResolvedReportIsFrozen]_vars

\* a resolved report whose last item came back after time had passed and
\* after its sibling
C12_Witness ==
  \E c \in MqCalls :
    /\ MqResolved(c)
    /\ Len(mq[c].qrs) = 2
    /\ mq[c].resp.operation_time > 0
    /\ Cardinality(MqSummaryLogs(c)) = 1
    /\ \E p0 \in MqAnswered(c, 0), p1 \in MqAnswered(c, 1) : p0 < p1

(***************************************************************************)
(* C14: every call to query emits exactly one log event, carrying the      *)
(* query text, when the connection answers: blue when the connection       *)
(* reported success, and the call then resolves with the result; yellow    *)
(* when it reported an error, and the call then rejects with that error.   *)
(* No call emits both, and none emits neither.                             *)
(***************************************************************************)
QcCalls == 1..Len(qc)

\* the places in the history at which query call c emitted a log event
QcLogs(c) ==
  {p \in TracePos : trace[p].ev = "log" /\ trace[p].kind = "query" /\ trace[p].call = c}

\* the place at which the connection answered query call c
QcAnswers(c) ==
  {p \in TracePos : trace[p].ev = "answer" /\ trace[p].kind = "query" /\ trace[p].call = c}

C14_OneLogEventPerQuery ==
  \A c \in QcCalls :
    /\ wire[qc[c].await].text = qc[c].q
    /\ Cardinality(QcLogs(c)) = Cardinality(QcAnswers(c))
    /\ Cardinality(QcAnswers(c)) = IF qc[c].await \in answered THEN 1 ELSE 0
    /\ qc[c].await \notin answered => qc[c].t.promise.state = "pending"
    /\ \A p \in QcAnswers(c) :
         /\ p + 1 \in QcLogs(c)
         /\ trace[p + 1].msg.q = qc[c].q
         /\ IF trace[p].out.err
              THEN /\ trace[p + 1].tag = "yellow"
                   /\ trace[p + 1].msg.text = "error with query: "
                   /\ qc[c].t.promise.state = "rejected"
                   /\ qc[c].t.promise.err = Thrown(qc[c].await)
              ELSE /\ trace[p + 1].tag = "blue"
                   /\ trace[p + 1].msg.text = "success query: "
                   /\ qc[c].t.promise.state = "resolved"
                   /\ qc[c].t.promise.res = QueryResult(qc[c].await, trace[p].out)
         /\ log => \E n \in 1..Len(console) :
                     /\ n = Cardinality({p2 \in TracePos : p2 <= p + 1
                                                            /\ trace[p2].ev = "log"})
                     /\ console[n] = [color |-> Colors(trace[p + 1].tag),
                                      msg |-> trace[p + 1].msg]

\* a query the connection answered with an error, on an instance that logs
C14_Witness ==
  \E c \in QcCalls :
    /\ log
    /\ Len(qc) > 1
    /\ qc[c].t.promise.state = "rejected"
    /\ \E p \in QcLogs(c) : trace[p].tag = "yellow" /\ trace[p].msg.q = qc[c].q

(***************************************************************************)
(* C16: the elapsed time of a batch is measured from dispatch start: the   *)
(* start time stamp is taken before the first query of the batch goes to   *)
(* the connection, and the end time stamp after the last item has settled  *)
(* and before the report is resolved.                                      *)
(***************************************************************************)
MqStamps(c, tag) ==
  {p \in TracePos : /\ trace[p].ev = "stamp" /\ trace[p].kind = "multiquery"
                    /\ trace[p].call = c /\ trace[p].tag = tag}

MqSends(c) ==
  {p \in TracePos : trace[p].ev = "send" /\ trace[p].kind = "multiquery"
                    /\ trace[p].call = c}

MqSettles(c) ==
  {p \in TracePos : trace[p].ev = "settle" /\ trace[p].kind = "multiquery"
                    /\ trace[p].call = c}

C16_ElapsedFromDispatchStart ==
  \A c \in MqCalls :
    /\ Cardinality(MqStamps(c, "start")) = 1
    /\ \A p \in MqStamps(c, "start") : \A p2 \in MqSends(c) : p < p2
    /\ \A p \in MqStamps(c, "end") :
         /\ \A i \in MqItems(c) : \E p2 \in MqAnswered(c, i) : p2 < p
         /\ \A p2 \in MqSettles(c) : p < p2
    /\ MqResolved(c) => Cardinality(MqStamps(c, "end")) = 1

(***************************************************************************)
(* C18: success_query_list has entries only when the flag was passed as    *)
(* true: with the flag omitted or false it is empty in the resolved report *)
(* for every call shape, a separate params array as the extra argument     *)
(* included; with the flag true it holds the rows of exactly the items     *)
(* that came back with at least one row.                                   *)
(***************************************************************************)
\* the flag as the caller passed it: the boolean among the extra arguments
MqFlagPassed(args) == \E j \in 1..Len(args) : args[j].t = "bool" /\ args[j].b

C18_SuccessListOnlyWithFlag ==
  \A c \in MqCalls :
    MqResolved(c) =>
      IF MqFlagPassed(mq[c].args)
        THEN /\ DOMAIN mq[c].resp.success_query_list = {i \in MqItems(c) : MqRows(c, i)}
             /\ \A i \in DOMAIN mq[c].resp.success_query_list :
                  mq[c].resp.success_query_list[i] =
                    [rows |-> MqOut(c, i).rows, of |-> mq[c].await[i + 1]]
        ELSE DOMAIN mq[c].resp.success_query_list = {}

(***************************************************************************)
(* C19: every call to transaction whose statements have all come back has  *)
(* settled, and settled exactly once: it has resolved or rejected and is   *)
(* never left pending, whatever BEGIN, the steps, COMMIT and ROLLBACK came *)
(* back with, a ROLLBACK that throws included.                             *)
(***************************************************************************)
C19_TransactionSettlesOnce ==
  \A c \in TxCalls :
    /\ Cardinality(TxSettled(c)) <= 1
    /\ TxOver(c) =>
         /\ tx[c].promise.state \in {"resolved", "rejected"}
         /\ Cardinality(TxSettled(c)) = 1

(***************************************************************************)
(* C20: fatal_error is absent in every report multiquery resolves with:    *)
(* each item catches its own error before the join, so no combination of   *)
(* outcomes (rows, zero rows, thrown error) makes the join fail, and the   *)
(* fatal-error branch is never taken.                                      *)
(***************************************************************************)
C20_NoFatalError ==
  \A c \in MqCalls :
    /\ mq[c].resp.fatal_error = NoErr
    /\ \A i \in MqItems(c) : mq[c].item[i + 1] # "rejected"
    /\ \A p \in MqSummaryLogs(c) :
         trace[p].msg.text = "new multi-query" /\ trace[p].tag = "white"
    /\ MqResolved(c) => Cardinality(MqStamps(c, "end")) = 1

\* a report of two items, one thrown and one without rows, resolved with no
\* fatal error
C20_Witness ==
  \E c \in MqCalls :
    /\ MqResolved(c)
    /\ Len(mq[c].qrs) = 2
    /\ MqThrew(c, 0)
    /\ MqNoRows(c, 1)
    /\ mq[c].resp.fatal_error = NoErr
    /\ ~mq[c].resp.success

(***************************************************************************)
(* The same transaction run twice in a row: the second call is made with   *)
(* the arguments of the first, once the first has resolved.  transaction   *)
(* reads no clock, so time is left out; the parameter lists hold one value *)
(* (their pairing with the queries is the subject of C4).                  *)
(***************************************************************************)
NextTxTwice ==
  \/ /\ tx = <<>>
     /\ \E queries \in SeqsUpTo(Texts, MaxQueries), bodies \in SeqsUpTo({"b1"}, MaxQueries) :
          CallTransaction(queries, bodies)
  \/ /\ Len(tx) = 1
     /\ tx[1].pc = "done"
     /\ tx[1].promise.state = "resolved"
     /\ CallTransaction(tx[1].queries, tx[1].bodies)
  \/ \E c \in 1..Len(tx), ok \in BOOLEAN : TxBeginDone(c, ok)
  \/ \E c \in 1..Len(tx), out \in Outcomes : TxStepDone(c, out)
  \/ \E c \in 1..Len(tx), ok \in BOOLEAN : TxRollbackDone(c, ok)
  \/ \E c \in 1..Len(tx), ok \in BOOLEAN : TxCommitDone(c, ok)
  \/ \E c \in 1..Len(tx), ok \in BOOLEAN : TxCatchRollbackDone(c, ok)
  \/ \E c \in 1..Len(tx) : TxResume(c)

SpecTxTwice == InitReady /\ [][NextTxTwice]_vars

(***************************************************************************)
(* C15: running the same all-successful transaction twice in a row sends   *)
(* two complete BEGIN ... COMMIT sequences, each with every query of the   *)
(* list in order; the second run is neither skipped nor deduplicated and   *)
(* resolves with its own final result.                                     *)
(***************************************************************************)
\* the statements call c has sent, in the order it sent them
TxTexts(c) ==
  LET S == TxWire(c)
      nth(j) == CHOOSE k \in S : Cardinality({k2 \in S : k2 < k}) = j - 1
  IN [j \in 1..Cardinality(S) |-> wire[nth(j)].text]

C15_SecondRunIsARunOfItsOwn ==
  \A c \in TxCalls :
    (TxAllWell(c) /\ TxOver(c)) =>
      /\ TxTexts(c) = <<"BEGIN">> \o tx[c].queries \o <<"COMMIT">>
      /\ \A c2 \in TxCalls : c2 < c => \A k \in TxWire(c2), k2 \in TxWire(c) : k < k2
      /\ tx[c].promise.state = "resolved"
      /\ Len(tx[c].queries) > 0 =>
           /\ tx[c].promise.res = TxLastResult(c)
           /\ tx[c].promise.res.of \in TxWire(c)
           /\ \A c2 \in TxCalls : c2 # c => tx[c2].promise.res # tx[c].promise.res

\* both runs of a transaction of two queries have resolved
C15_Witness ==
  /\ Len(tx) = 2
  /\ tx[1].queries = tx[2].queries
  /\ Len(tx[2].queries) = 2
  /\ tx[2].queries[1] # tx[2].queries[2]
  /\ TxAllWell(2) /\ tx[2].pc = "done"
  /\ tx[1].promise.state = "resolved" /\ tx[2].promise.state = "resolved"
  /\ Len(wire) = 8

(***************************************************************************)
(* Calls that share the instance: two calls, made at any moment, the       *)
(* second while the first is in progress or after it: transactions, a      *)
(* query, a multiquery.  The connection takes the statements in the order  *)
(* in which #client.query is called, which is the order of wire.  The      *)
(* calls here carry at most one query and no parameters, a second          *)
(* transaction carries no query, and time is left out.                     *)
(***************************************************************************)
NextShared ==
  \/ /\ Len(tx) + Len(qc) + Len(mq) < 2
     /\ \E queries \in {<<>>} \cup {<<q>> : q \in Texts} :
          /\ tx # <<>> => queries = <<>>
          /\ CallTransaction(queries, <<>>)
  \/ /\ Len(tx) + Len(qc) + Len(mq) < 2
     /\ qc = <<>>
     /\ \E q \in Texts : CallQuery(q, Undefined)
  \/ /\ Len(tx) + Len(qc) + Len(mq) < 2
     /\ mq = <<>>
     /\ \E qrs \in {<<p>> : p \in QueryPairs} : CallMultiquery(qrs, <<>>)
  \/ \E c \in 1..Len(tx), ok \in BOOLEAN : TxBeginDone(c, ok)
  \/ \E c \in 1..Len(tx), out \in Outcomes : TxStepDone(c, out)
  \/ \E c \in 1..Len(tx), ok \in BOOLEAN : TxRollbackDone(c, ok)
  \/ \E c \in 1..Len(tx), ok \in BOOLEAN : TxCommitDone(c, ok)
  \/ \E c \in 1..Len(tx), ok \in BOOLEAN : TxCatchRollbackDone(c, ok)
  \/ \E c \in 1..Len(tx) : TxResume(c)
  \/ \E c \in 1..Len(qc), out \in Outcomes : QueryDone(c, out)
  \/ \E c \in 1..Len(mq), i \in 0..(MaxQueries - 1), out \in Outcomes : MqItemDone(c, i, out)
  \/ \E c \in 1..Len(mq) : MqItemResume(c)
  \/ \E c \in 1..Len(mq) : MqJoin(c)

SpecShared == InitReady /\ [][NextShared]_vars

(***************************************************************************)
(* C17: a transaction stays atomic when other calls run on the same        *)
(* instance: between the BEGIN of a transaction call and its COMMIT or     *)
(* ROLLBACK, no statement of another call (a second transaction's BEGIN,   *)
(* query, COMMIT or ROLLBACK, a direct query, an item of a multiquery) is  *)
(* sent to the shared connection.                                          *)
(***************************************************************************)
\* the statements with which call c has ended its transaction
TxEnds(c) == {k \in TxWire(c) : wire[k].item = -1 /\ wire[k].text \in {"COMMIT", "ROLLBACK"}}

\* the stretch of the connection's input that belongs to the transaction of
\* call c: from its BEGIN to its first COMMIT or ROLLBACK, or to the newest
\* statement while it has sent neither
TxSpan(c) ==
  Min(TxWire(c)) .. (IF TxEnds(c) = {} THEN Len(wire) ELSE Min(TxEnds(c)))

C17_TransactionAtomicOnSharedConnection ==
  \A c \in TxCalls :
    \A k \in TxSpan(c) : wire[k].kind = "transaction" /\ wire[k].call = c

(***************************************************************************)
(* Two instances side by side, built with opposite log flags and given the *)
(* same calls and the same answers of the connection.  The variables hold  *)
(* the instance whose turn it is and twin.st holds the other: the leading  *)
(* instance takes any step, the instances change places, the following     *)
(* instance is given the same input, and they change places                *)
(* again.  One call is made, of any of the three kinds, after connect()    *)
(* has resolved or rejected; the calls pass no parameters (multiquery with *)
(* and without the flag), and time is left out.                            *)
(***************************************************************************)
\* how many steps an instance has taken
StepsOf(st) ==
  (IF st.conn = "connecting" THEN 0 ELSE 1)
    + Len(st.tx) + Len(st.mq) + Len(st.qc) + Cardinality(st.answered)
    + Cardinality({k \in st.answered : st.wire[k].kind = "transaction"})
    - Cardinality({c \in DOMAIN st.tx : st.tx[c].ready})
    + Cardinality({c \in DOMAIN st.mq : st.mq[c].pc = "done"})
    + Cardinality({ci \in {<<c, i>> : c \in DOMAIN st.mq, i \in 1..MaxQueries} :
                     /\ ci[2] <= Len(st.mq[ci[1]].item)
                     /\ st.mq[ci[1]].item[ci[2]] \notin {"pending", "answered"}})

\* the steps of one instance
LogSteps ==
  \/ \E ok \in BOOLEAN : ConnectDone(ok)
  \/ /\ conn # "connecting" /\ tx = <<>> /\ mq = <<>> /\ qc = <<>>
     /\ \E queries \in SeqsUpTo(Texts, MaxQueries) : CallTransaction(queries, <<>>)
  \/ /\ conn # "connecting" /\ tx = <<>> /\ mq = <<>> /\ qc = <<>>
     /\ \E qrs \in SeqsUpTo(QueryPairs, MaxQueries), args \in {<<>>, <<BoolArg(TRUE)>>} :
          CallMultiquery(qrs, args)
  \/ /\ conn # "connecting" /\ tx = <<>> /\ mq = <<>> /\ qc = <<>>
     /\ \E q \in Texts : CallQuery(q, Undefined)
  \/ \E c \in 1..Len(tx), ok \in BOOLEAN : TxBeginDone(c, ok)
  \/ \E c \in 1..Len(tx), out \in Outcomes : TxStepDone(c, out)
  \/ \E c \in 1..Len(tx), ok \in BOOLEAN : TxRollbackDone(c, ok)
  \/ \E c \in 1..Len(tx), ok \in BOOLEAN : TxCommitDone(c, ok)
  \/ \E c \in 1..Len(tx), ok \in BOOLEAN : TxCatchRollbackDone(c, ok)
  \/ \E c \in 1..Len(tx) : TxResume(c)
  \/ \E c \in 1..Len(qc), out \in Outcomes : QueryDone(c, out)
  \/ \E c \in 1..Len(mq), i \in 0..(MaxQueries - 1), out \in Outcomes : MqItemDone(c, i, out)
  \/ \E c \in 1..Len(mq) : MqItemResume(c)
  \/ \E c \in 1..Len(mq) : MqJoin(c)

\* the instances change places
ChangePlaces(who) ==
  /\ log' = twin.st.log
  /\ conn' = twin.st.conn
  /\ tx' = twin.st.tx
  /\ mq' = twin.st.mq
  /\ qc' = twin.st.qc
  /\ wire' = twin.st.wire
  /\ answered' = twin.st.answered
  /\ trace' = twin.st.trace
  /\ console' = twin.st.console
  /\ now' = twin.st.now
  /\ twin' = [who |-> who, st |-> State]

\* the leading instance takes a step of its choice
Lead == twin.who = "leads" /\ StepsOf(State) = StepsOf(twin.st) /\ LogSteps

\* what the connection answered statement k of instance st with
GivenAnswer(st, k) ==
  LET p == CHOOSE p \in 1..Len(st.trace) :
             st.trace[p].ev = "answer" /\ st.trace[p].idx = k
  IN st.trace[p].out

\* the following instance is given what the leading one was given last: the
\* outcome of connect(), the call with its arguments, the answer of the
\* connection to the same statement, the run of the code after an await of
\* the transaction or of an item, or the run of the join
Follow ==
  /\ twin.who = "follows" /\ StepsOf(State) < StepsOf(twin.st)
  /\ \/ /\ conn # twin.st.conn
        /\ ConnectDone(twin.st.conn = "connected")
     \/ /\ Len(tx) < Len(twin.st.tx)
        /\ CallTransaction(twin.st.tx[Len(tx) + 1].queries, twin.st.tx[Len(tx) + 1].bodies)
     \/ /\ Len(mq) < Len(twin.st.mq)
        /\ CallMultiquery(twin.st.mq[Len(mq) + 1].qrs, twin.st.mq[Len(mq) + 1].args)
     \/ /\ Len(qc) < Len(twin.st.qc)
        /\ CallQuery(twin.st.qc[Len(qc) + 1].q, twin.st.qc[Len(qc) + 1].body)
     \/ \E k \in twin.st.answered \ answered :
          LET out == GivenAnswer(twin.st, k)
          IN \/ \E c \in 1..Len(tx) :
                  /\ tx[c].await = k
                  /\ \/ TxBeginDone(c, ~out.err)
                     \/ TxStepDone(c, out)
                     \/ TxRollbackDone(c, ~out.err)
                     \/ TxCommitDone(c, ~out.err)
                     \/ TxCatchRollbackDone(c, ~out.err)
             \/ \E c \in 1..Len(qc) : qc[c].await = k /\ QueryDone(c, out)
             \/ \E c \in 1..Len(mq), i \in 0..(MaxQueries - 1) :
                  /\ i < Len(mq[c].await)
                  /\ mq[c].await[i + 1] = k
                  /\ MqItemDone(c, i, out)
     \/ /\ twin.st.answered = answered
        /\ \E c \in 1..Len(tx) : ~twin.st.tx[c].ready /\ TxResume(c)
     \/ /\ twin.st.answered = answered
        /\ \E c \in 1..Len(mq) :
             Len(twin.st.mq[c].jobs) < Len(mq[c].jobs) /\ MqItemResume(c)
     \/ /\ twin.st.answered = answered
        /\ \E c \in 1..Len(mq) : twin.st.mq[c].pc = "done" /\ MqJoin(c)

NextLog ==
  \/ Lead
  \/ twin.who = "leads" /\ StepsOf(State) > StepsOf(twin.st) /\ ChangePlaces("follows")
  \/ Follow
  \/ twin.who = "follows" /\ StepsOf(State) = StepsOf(twin.st) /\ ChangePlaces("leads")

InitLog ==
  /\ log \in BOOLEAN
  /\ conn = "connecting"
  /\ tx = <<>>
  /\ mq = <<>>
  /\ qc = <<>>
  /\ wire = <<>>
  /\ answered = {}
  /\ trace = <<>>
  /\ console = <<>>
  /\ now = 0
  /\ twin = [who |-> "leads", st |-> [State EXCEPT !.log = ~log]]

SpecLog == InitLog /\ [][NextLog]_vars

(***************************************************************************)
(* C13: for the same calls and the same behaviour of the connection, an    *)
(* instance built with log = false resolves and rejects with the same      *)
(* results and reports and sends the same statements in the same order as  *)
(* one built with log = true; only the console differs, and with log =     *)
(* false nothing is written to it.                                         *)
(***************************************************************************)
\* what a caller and the connection see of an instance
ObservedOf(st) ==
  [wire |-> st.wire, answered |-> st.answered, tx |-> st.tx, mq |-> st.mq,
   qc |-> st.qc, conn |-> st.conn, trace |-> st.trace, now |-> st.now]

\* the lines an instance that logs has on its console: one per log event
ConsoleOf(st) ==
  LET L == SelectSeq(st.trace, LAMBDA e : e.ev = "log")
  IN [n \in 1..Len(L) |-> [color |-> Colors(L[n].tag), msg |-> L[n].msg]]

C13_LogFlagChangesConsoleOnly ==
  /\ twin.st.log = ~log
  /\ StepsOf(State) = StepsOf(twin.st) => ObservedOf(State) = ObservedOf(twin.st)
  /\ (twin.who = "follows" /\ StepsOf(State) < StepsOf(twin.st)) => ENABLED Follow
  /\ console = IF log THEN ConsoleOf(State) ELSE <<>>
  /\ twin.st.console = IF twin.st.log THEN ConsoleOf(twin.st) ELSE <<>>

\* both instances have resolved the same transaction of two queries, one
\* with three lines on its console after the connect line, one with none
C13_Witness ==
  /\ twin.who = "leads"
  /\ StepsOf(State) = StepsOf(twin.st)
  /\ Len(tx) = 1 /\ Len(tx[1].queries) = 2
  /\ tx[1].promise.state = "resolved"
  /\ twin.st.tx[1].promise = tx[1].promise
  /\ twin.st.wire = wire /\ Len(wire) = 4
  /\ ~log /\ console = <<>>
  /\ Len(twin.st.console) = 4

====
